---------------------------- MODULE Spec2Model ----------------------------
(***************************************************************************)
(* MIDI clock -> JACK transport bridge (midi_clock_sync.cpp).              *)
(*                                                                         *)
(* The program's state is the global BPMState g_bpm_state plus what the    *)
(* JACK host holds for this client.  Four contexts act on it:              *)
(*   - the event loop (process_midi_clock): Clock, Start, Stop, Continue;  *)
(*   - the audio-block callback (jack_process_callback), modelled by its   *)
(*     three atomic operations (load rolling, load frame, store frame);    *)
(*   - the timebase callback (jack_timebase_callback), the "query";        *)
(*   - the keyboard/signal commands (reset_transport, play/pause toggle).  *)
(*                                                                         *)
(* Numbers.  The doubles of the source are modelled by their real values   *)
(* at a resolution of 1/1000 BPM: a tempo is an integer number of          *)
(* milli-BPM, a blend or a division is rounded to the nearest milli-BPM.   *)
(* Timestamps are microseconds (the source truncates the elapsed time to   *)
(* microseconds).  The position is computed exactly (rational arithmetic   *)
(* on integers), truncation being the (int32_t) cast of the source.        *)
(* TLC's integers are 32 bits wide: products that do not fit are computed  *)
(* by MulDivMod.                                                           *)
(***************************************************************************)
EXTENDS Integers, Sequences, FiniteSets, TLC

VARIABLES
    \* ---- BPMState (src/unnamed/part_001:33-59)
    current_bpm,          \* std::atomic<double>, in milli-BPM
    pulse_count,          \* std::atomic<int>
    last_pulse_time,      \* time_point, in microseconds
    transport_rolling,    \* std::atomic<bool>: the mode (TRUE = Rolling)
    first_clock_received, \* std::atomic<bool>: the first-pulse flag
    last_snapped_bpm,     \* double, in milli-BPM: the tracked snap target
    stability_counter,    \* int
    measurement_count,    \* std::atomic<int>
    bar, beat, tick,      \* std::atomic<int>: the cached position
    current_frame,        \* std::atomic<jack_nframes_t> (uint32_t)
    sample_rate,          \* jack_nframes_t, set once in main
    \* ---- the JACK host, as this client sees it
    jack_state,           \* the host transport state (jack_transport_query)
    timebase_master,      \* whether jack_set_timebase_callback succeeded
    jack_reposition,      \* whether the latest step called jack_transport_reposition
    \* ---- the audio-block callback's position and locals
    a_pc, a_n, a_cur,
    \* ---- the Clock handler's position and locals, for the specification that
    \* ---- takes it one access to the shared state at a time (SpecRace)
    c_pc,                 \* where calculate_and_set_bpm stands ("idle": not in it)
    c_now,                \* now
    c_count,              \* count
    c_trace,              \* what this call has done so far of: storing the
                          \* tempo ("bpm"), incrementing measurement_count
                          \* ("count"), requesting the reposition ("reposition")
    r_pc,                 \* where reset_transport stands, likewise
    \* ---- the timebase callback's position and locals, for the specification
    \* ---- that takes it one access at a time (SpecQuery)
    q_pc,                 \* where jack_timebase_callback stands
    q_bpm,                \* bpm
    q_frame,              \* pos->frame
    q_np,                 \* new_pos
    \* ---- the environment and the history of the run
    op,                   \* what the latest step did (the operation, and for a
                          \* Clock pulse the branch it took)
    stops,                \* Stop events processed in a row (0, 1, 2 = "2 or more")
    stopped_at,           \* the frame at which a Stop halted a Rolling transport
                          \* with no audio callback in progress, -1 when a
                          \* Start, Continue, Clock, toggle, reset or query followed
    qual_run,             \* estimates in a row whose smoothed value lay within
                          \* 0.15 of one same integer (0..3, 3 = "3 or more")
    qual_int,             \* that integer, in milli-BPM
    steady,               \* TRUE while the run so far is pulses 20833 microseconds
                          \* apart from the initial state, and nothing else
    even_gap,             \* T while the run so far is pulses T > 0 microseconds
                          \* apart from the initial state and nothing else; 0
                          \* before the second pulse, -1 otherwise
    pulses,               \* the pulses of that run so far (0 when even_gap = -1)
    raw_sample,           \* raw_bpm of the latest estimate, in milli-BPM (0: none)
    smoothed_sample,      \* smoothed_bpm of the latest estimate, the same
    host_pos,             \* pos->frame as the host handed it to the latest step,
                          \* when that step was a query with new_pos set; else -1
    trip,                 \* 1 after a Start, 2 once an audio call has completed
                          \* after it, 3 after the reset that follows; queries
                          \* may come in between, any other operation gives 0
    overlap,              \* what the other contexts did during the audio call in
                          \* progress or just completed: "none", "reset" (a Start
                          \* or reset stored frame 0), "stop" (a Stop or toggle
                          \* stored mode Stopped), "mixed"
    phase,                \* the Clock pulses since the latest Start, Stop or
                          \* reset (or program start), less one, modulo 24;
                          \* -1 when there was none
    query_rose            \* TRUE when the two latest steps are queries and the
                          \* latter computed its position from a larger frame
                          \* than the former

estvars  == <<current_bpm, pulse_count, last_pulse_time, first_clock_received,
              last_snapped_bpm, stability_counter, measurement_count>>
posvars  == <<bar, beat, tick>>
audvars  == <<a_pc, a_n, a_cur>>
hostvars == <<sample_rate, timebase_master>>
stepvars == <<c_pc, c_now, c_count, c_trace, r_pc>>
qryvars  == <<q_pc, q_bpm, q_frame, q_np>>
progvars == <<estvars, posvars, transport_rolling, current_frame, jack_state,
              hostvars, audvars, jack_reposition, stepvars, qryvars>>
histvars == <<op, stops, stopped_at, qual_run, qual_int, steady, even_gap, pulses,
              raw_sample, smoothed_sample, host_pos, trip, overlap, phase,
              query_rose>>
vars     == <<progvars, histvars>>

----------------------------------------------------------------------------
\* Program constants (src/unnamed/part_001:19-24), tempi in milli-BPM.

BpmUnit == 1000
PULSES_PER_QUARTER == 24
MIN_BPM == 20000
MAX_BPM == 300000
BPM_SNAP_THRESHOLD == 150
BPM_STABILITY_COUNT == 3
INITIAL_BPM == 120000
MICROS_PER_MINUTE == 60000000
BEATS_PER_BAR == 4
TICKS_PER_BEAT == 1920
MaxInt32 == 2147483647

----------------------------------------------------------------------------
\* Bounds of the model.

MaxTime == 1500000      \* Spec: no pulse is read later than this (microseconds)
MaxFrame == 16384       \* the audio callback is not invoked beyond this frame
MaxTempoTime == 3200000 \* SpecTempo: no pulse is read later than this
MaxAnomalyTime == 1100000  \* SpecAnomaly: the same
MaxAnomalySamples == 3  \* SpecAnomaly: no pulse once measurement_count or
                        \* stability_counter has reached this
MaxRaceTime == 700000   \* SpecRace: no pulse is read later than this
MaxPublishTime == 1100000  \* SpecPublish: the same
MaxQueryTime == 700000  \* SpecQuery: the same
MaxBlendSamples == 12   \* SpecBlend: no pulse once measurement_count has reached this
MaxWrapFrames == 8192   \* SpecWrap: the audio callback is not invoked further
                        \* than this below 2^32

\* The environment's inputs.
Gaps == {20833}                    \* microseconds between two pulses (120 BPM)
QueryGaps == {25000}               \* the same for SpecQuery (100 BPM)
TempoGaps == {0, 8000, 20833, 130000}  \* the same for SpecTempo: a stalled clock,
                                   \* 312.5 BPM, 120 BPM, 19.2 BPM
AnomalyGaps == {-20833, 0, 20833}  \* the same for SpecAnomaly: a clock that is
                                   \* set back, one that stalls, 120 BPM
Buffers == {8192}                  \* nframes of an audio block
HostFrames == {0, 24000, 96000}    \* pos->frame handed to the timebase callback
SampleRates == {48000}             \* jack_get_sample_rate
PosRates == {44100, 48000, 96000}  \* the same for SpecPos
PosBpms == {20000, 60000, 100000, 119500, 120000, 300000}  \* stored tempi, SpecPos
BlendGaps == {20000, 120000}       \* the same for SpecBlend: 125 BPM exactly, and
                                   \* 20.8333 BPM
BlendBpms == {21000, 24000, 114000, 115000, 121000, 122000, 125000, 128000,
              129000, 135000, 136000}  \* tempi the estimator has locked on,
                                   \* SpecBlend: 11, 10, 4, 3 and 0 BPM away from
                                   \* 125; 21 and 24, from which a 20.8333 sample
                                   \* blends to 20.85 and 21.15
BlendCounts == {4, 5, 9, 10}       \* measurement_count at that point, SpecBlend
WrapFrames == {0, -8192, -4096}    \* the same for SpecWrap: 0, 2^32 - 8192 and
                                   \* 2^32 - 4096 (as UInt32Add holds them)
PosFrames == {0, 1, 6615, 24000, 28800, 47999, 48000, 96000, 190365, 3000000}

----------------------------------------------------------------------------
\* Arithmetic helpers.

Abs(x) == IF x < 0 THEN -x ELSE x
Min(a, b) == IF a < b THEN a ELSE b
Max(a, b) == IF a > b THEN a ELSE b

\* <<q, r>> with a*b = q*c + r and 0 <= r < c, for 0 <= a < 2^26 and
\* 0 < c < 2^26, without forming a*b (expansion of b in base 16).  b is a
\* uint32_t: a value v >= 2^31 is held as v - 2^32, and its sixteenth is
\* 2^28 + (v - 2^32) / 16.
RECURSIVE MulDivMod(_, _, _)
MulDivMod(a, b, c) ==
    IF b = 0 THEN <<0, 0>>
    ELSE LET h == MulDivMod(a, IF b > 0 THEN b \div 16
                               ELSE (MaxInt32 \div 8 + 1) + b \div 16, c)
             s == 16 * h[2] + a * (b % 16)
         IN  <<16 * h[1] + s \div c, s % c>>

\* a*b/c rounded to the nearest integer (halves up).
MulDivRound(a, b, c) ==
    LET qr == MulDivMod(a, b, c)
    IN  IF 2 * qr[2] >= c THEN qr[1] + 1 ELSE qr[1]

\* current + nframes in jack_nframes_t (uint32_t).  A value v >= 2^31 is held as
\* v - 2^32, so that the sum below is the 32-bit wrap-around sum.
UInt32Add(a, n) ==
    IF a >= 0 /\ n > MaxInt32 - a
    THEN (a - MaxInt32 - 1) + (n - MaxInt32 - 1)
    ELSE a + n

----------------------------------------------------------------------------
\* TempoEstimator: the pure steps of calculate_and_set_bpm.

\* 60000000.0 / elapsed, for elapsed > 0.  Below 1000 microseconds the quotient
\* (above 60000 BPM) does not fit the model's integers and is held as 60000 BPM;
\* the clamp that follows takes both to MAX_BPM.
RawQuotient(elapsed) ==
    IF elapsed < 1000 THEN MICROS_PER_MINUTE
    ELSE MulDivRound(MICROS_PER_MINUTE, BpmUnit, elapsed)

\* A raw sample taken as it is.
NoClamp(raw) == raw

\* std::max(MIN_BPM, std::min(MAX_BPM, raw_bpm))
Clamp(raw) == Max(MIN_BPM, Min(MAX_BPM, raw))

RawBpm(elapsed) == Clamp(RawQuotient(elapsed))

\* The weight given to the raw sample, in tenths.
FAST_WEIGHT == 9
MEDIUM_WEIGHT == 5
SMOOTHING_FACTOR == 3

\* Weights chosen with the thresholds included.
SmoothingWeightInclusive(current, raw, mcount) ==
    IF mcount < 5 \/ Abs(raw - current) >= 10 * BpmUnit THEN FAST_WEIGHT
    ELSE IF mcount < 10 \/ Abs(raw - current) >= 3 * BpmUnit THEN MEDIUM_WEIGHT
    ELSE SMOOTHING_FACTOR

SmoothingWeight(current, raw, mcount) ==
    IF mcount < 5 \/ Abs(raw - current) > 10 * BpmUnit THEN FAST_WEIGHT
    ELSE IF mcount < 10 \/ Abs(raw - current) > 3 * BpmUnit THEN MEDIUM_WEIGHT
    ELSE SMOOTHING_FACTOR

\* current * (1 - w) + raw * w
Blend(current, raw, w) == (current * (10 - w) + raw * w + 5) \div 10

\* smoothed_bpm
SmoothedBpm(current, raw, mcount) ==
    Blend(current, raw, SmoothingWeight(current, raw, mcount))

\* std::round of a positive tempo
NearestInt(bpm) == ((bpm + BpmUnit \div 2) \div BpmUnit) * BpmUnit

\* A snap that waits for one more stable estimate.
snap_bpm_late(smoothed_bpm, counter, target) ==
    LET nearest_int == NearestInt(smoothed_bpm)
        distance == Abs(smoothed_bpm - nearest_int)
        same == Abs(target - nearest_int) < BpmUnit \div 2
        c == IF distance <= BPM_SNAP_THRESHOLD THEN (IF same THEN counter + 1 ELSE 1)
             ELSE 0
        t == IF distance <= BPM_SNAP_THRESHOLD /\ ~same THEN nearest_int ELSE target
    IN  [bpm |-> IF distance <= BPM_SNAP_THRESHOLD /\ c > BPM_STABILITY_COUNT
                 THEN nearest_int ELSE smoothed_bpm,
         counter |-> c, target |-> t]

\* A snap that goes on counting when the nearest integer changes.
snap_bpm_keeps_run(smoothed_bpm, counter, target) ==
    LET nearest_int == NearestInt(smoothed_bpm)
        distance == Abs(smoothed_bpm - nearest_int)
        same == Abs(target - nearest_int) < BpmUnit \div 2
        c == IF distance <= BPM_SNAP_THRESHOLD THEN counter + 1 ELSE 0
        t == IF distance <= BPM_SNAP_THRESHOLD /\ ~same THEN nearest_int ELSE target
    IN  [bpm |-> IF distance <= BPM_SNAP_THRESHOLD /\ c >= BPM_STABILITY_COUNT
                 THEN nearest_int ELSE smoothed_bpm,
         counter |-> c, target |-> t]

\* snap_bpm: the value returned and the stability state it leaves.
snap_bpm(smoothed_bpm, counter, target) ==
    LET nearest_int == NearestInt(smoothed_bpm)
        distance == Abs(smoothed_bpm - nearest_int)
        same == Abs(target - nearest_int) < BpmUnit \div 2
        c == IF distance <= BPM_SNAP_THRESHOLD
             THEN (IF same THEN counter + 1 ELSE 1)
             ELSE 0
        t == IF distance <= BPM_SNAP_THRESHOLD /\ ~same THEN nearest_int ELSE target
    IN  [bpm |-> IF distance <= BPM_SNAP_THRESHOLD /\ c >= BPM_STABILITY_COUNT
                 THEN nearest_int ELSE smoothed_bpm,
         counter |-> c,
         target |-> t]

----------------------------------------------------------------------------
\* PositionClock: the position computed by jack_timebase_callback.

\* Ticks counted over whole seconds only.
BeatTicksWholeSeconds(frame, bpm, rate) ==
    MulDivMod(4 * bpm, (frame \div rate) * rate, 125 * rate)[1]

\* floor(beats_elapsed * 1920), beats_elapsed = (bpm / 60.0) * (frame / sample_rate):
\* with bpm in milli-BPM, beats_elapsed * 1920 = 4 * bpm * frame / (125 * rate).
BeatTicksElapsed(frame, bpm, rate) == MulDivMod(4 * bpm, frame, 125 * rate)[1]

\* A position whose beat is not reduced to the bar.
PositionUnreduced(frame, bpm, rate) ==
    LET ticks_elapsed == BeatTicksElapsed(frame, bpm, rate)
        beats_elapsed == ticks_elapsed \div TICKS_PER_BEAT
    IN  [bar |-> beats_elapsed \div BEATS_PER_BAR + 1, beat |-> beats_elapsed + 1,
         tick |-> ticks_elapsed % TICKS_PER_BEAT]

\* A position whose bar is total_bars rounded to the nearest integer.
PositionRoundedBar(frame, bpm, rate) ==
    LET ticks_elapsed == BeatTicksElapsed(frame, bpm, rate)
        beats_elapsed == ticks_elapsed \div TICKS_PER_BEAT
        tick_in_beat  == ticks_elapsed % TICKS_PER_BEAT
        total_bars    == (beats_elapsed + BEATS_PER_BAR \div 2) \div BEATS_PER_BAR
        beat_in_bar   == beats_elapsed % BEATS_PER_BAR
    IN  [bar |-> total_bars + 1, beat |-> beat_in_bar + 1, tick |-> tick_in_beat]

\* total_bars, fmod(beats_elapsed, 4) and fmod(beat_in_bar, 1.0) * 1920, truncated.
Position(frame, bpm, rate) ==
    LET ticks_elapsed == BeatTicksElapsed(frame, bpm, rate)
        beats_elapsed == ticks_elapsed \div TICKS_PER_BEAT      \* whole beats
        tick_in_beat  == ticks_elapsed % TICKS_PER_BEAT
        total_bars    == beats_elapsed \div BEATS_PER_BAR
        beat_in_bar   == beats_elapsed % BEATS_PER_BAR
    IN  [bar |-> total_bars + 1, beat |-> beat_in_bar + 1, tick |-> tick_in_beat]

----------------------------------------------------------------------------
\* The state after construction and setup (main, before the event loop).

InitProgram ==
    /\ current_bpm = INITIAL_BPM
    /\ pulse_count = 0
    /\ last_pulse_time = 0
    /\ transport_rolling = FALSE
    /\ first_clock_received = FALSE
    /\ last_snapped_bpm = 0
    /\ stability_counter = 0
    /\ measurement_count = 0
    /\ bar = 1 /\ beat = 1 /\ tick = 0
    /\ current_frame = 0
    /\ a_pc = "idle" /\ a_n = 0 /\ a_cur = 0
    /\ jack_reposition = FALSE
    /\ c_pc = "idle" /\ c_now = 0 /\ c_count = 0 /\ c_trace = <<>>
    /\ r_pc = "idle"
    /\ q_pc = "idle" /\ q_bpm = 0 /\ q_frame = 0 /\ q_np = FALSE

InitHistory ==
    /\ op = "init"
    /\ stops = 0
    /\ stopped_at = -1
    /\ qual_run = 0
    /\ qual_int = 0
    /\ steady = TRUE
    /\ even_gap = 0
    /\ pulses = 0
    /\ raw_sample = 0
    /\ smoothed_sample = 0
    /\ host_pos = -1
    /\ trip = 0
    /\ overlap = "none"
    /\ phase = -1
    /\ query_rose = FALSE

\* The host: its sample rate, whether its transport is already rolling when the
\* client connects (JackNoStartServer), whether it grants the timebase.
Init ==
    /\ InitProgram
    /\ InitHistory
    /\ sample_rate \in SampleRates
    /\ jack_state \in {"Stopped", "Rolling"}
    /\ timebase_master \in BOOLEAN

\* The round trip Start, audio calls, reset: where operation `name` leaves it.
TripAfter(name) ==
    IF name = "Start" THEN 1
    ELSE IF name = "query" /\ trip \in {1, 2} THEN trip
    ELSE IF name = "reset" /\ trip = 2 /\ a_pc = "idle" THEN 3
    ELSE 0

\* What operation `name` of another context adds to the record of the audio
\* call in progress.
OverlapAfter(name) ==
    IF a_pc = "idle" THEN "none"
    ELSE IF name \in {"Start", "reset"}
         THEN (IF overlap \in {"none", "reset"} THEN "reset" ELSE "mixed")
    ELSE IF name = "Stop" \/ (name = "toggle" /\ jack_state = "Rolling")
         THEN (IF overlap \in {"none", "stop"} THEN "stop" ELSE "mixed")
    ELSE IF name = "query" THEN "mixed"
    ELSE IF name \in {"Continue", "toggle", "ClockAutoStart"} /\ overlap = "stop"
         THEN "mixed"
    ELSE overlap

\* The history left by an operation other than a Clock pulse, a Stop, a query
\* and the audio callback.
Intervene(name) ==
    /\ op' = name
    /\ stops' = 0
    /\ stopped_at' = -1
    /\ steady' = FALSE
    /\ even_gap' = -1
    /\ pulses' = 0
    /\ host_pos' = -1
    /\ trip' = TripAfter(name)
    /\ overlap' = OverlapAfter(name)
    /\ phase' = (IF name \in {"Start", "reset"} THEN -1 ELSE phase)
    /\ query_rose' = FALSE
    /\ UNCHANGED <<qual_run, qual_int, raw_sample, smoothed_sample>>

\* The history left by a query handed pos_frame and new_pos.
QueryHistory(pos_frame, new_pos) ==
    /\ op' = "query"
    /\ stops' = 0
    /\ stopped_at' = -1
    /\ steady' = FALSE
    /\ even_gap' = -1
    /\ pulses' = 0
    /\ host_pos' = (IF new_pos THEN pos_frame ELSE -1)
    /\ trip' = TripAfter("query")
    /\ overlap' = OverlapAfter("query")
    /\ query_rose' = (op = "query" /\ ~new_pos /\ pos_frame > current_frame)
    /\ UNCHANGED <<qual_run, qual_int, raw_sample, smoothed_sample, phase>>

\* The clock readings of a source whose pulses are `gap` microseconds apart: the
\* k-th pulse after the one that opened the window reads k gaps after it; the
\* first pulse after a (re)start reads one beat after the stored instant.
PulseTime(gap) ==
    last_pulse_time
      + (IF first_clock_received THEN pulse_count + 1 ELSE PULSES_PER_QUARTER) * gap

\* The spacing T of the source once the pulse read at `now` has arrived, as
\* even_gap records it.
EvenGapAfter(now) ==
    LET k == IF first_clock_received THEN pulse_count + 1 ELSE PULSES_PER_QUARTER
        g == (now - last_pulse_time) \div k
    IN  IF even_gap = -1 THEN -1
        ELSE IF pulses = 0 THEN 0
        ELSE IF g > 0 /\ now = PulseTime(g) /\ even_gap \in {0, g} THEN g
        ELSE -1

\* The history left by a Clock pulse read at `now`.
ClockHistory(name, now) ==
    /\ op' = name
    /\ stops' = 0
    /\ stopped_at' = -1
    /\ steady' = (steady /\ now = PulseTime(20833))
    /\ even_gap' = EvenGapAfter(now)
    /\ pulses' = (IF EvenGapAfter(now) = -1 THEN 0 ELSE pulses + 1)
    /\ host_pos' = -1
    /\ trip' = 0
    /\ overlap' = OverlapAfter(name)
    /\ phase' = (phase + 1) % PULSES_PER_QUARTER
    /\ query_rose' = FALSE

----------------------------------------------------------------------------
\* The event loop: process_midi_clock.

\* A first pulse that opens the window and leaves the transport as it is.
FirstPulseNoAutoStart(now) ==
    /\ ClockHistory(IF transport_rolling THEN "ClockFirst" ELSE "ClockAutoStart", now)
    /\ first_clock_received' = TRUE
    /\ last_pulse_time' = now
    /\ pulse_count' = 0
    /\ jack_reposition' = FALSE
    /\ UNCHANGED <<current_bpm, last_snapped_bpm, stability_counter, measurement_count,
                   transport_rolling, jack_state, qual_run, qual_int, raw_sample, smoothed_sample>>

\* A first pulse that counts itself as the first pulse of the window.
FirstPulseCounts(now) ==
    /\ ClockHistory(IF transport_rolling THEN "ClockFirst" ELSE "ClockAutoStart", now)
    /\ first_clock_received' = TRUE
    /\ last_pulse_time' = now
    /\ pulse_count' = 1
    /\ transport_rolling' = TRUE
    /\ jack_state' = IF transport_rolling THEN jack_state ELSE "Rolling"
    /\ jack_reposition' = FALSE
    /\ UNCHANGED <<current_bpm, last_snapped_bpm, stability_counter,
                   measurement_count, qual_run, qual_int, raw_sample, smoothed_sample>>

\* calculate_and_set_bpm, first pulse: the window opens, the transport auto-starts.
FirstPulse(now) ==
    /\ ClockHistory(IF transport_rolling THEN "ClockFirst" ELSE "ClockAutoStart", now)
    /\ first_clock_received' = TRUE
    /\ last_pulse_time' = now
    /\ pulse_count' = 0
    /\ transport_rolling' = TRUE
    /\ jack_state' = IF transport_rolling THEN jack_state ELSE "Rolling"
    /\ jack_reposition' = FALSE
    /\ UNCHANGED <<current_bpm, last_snapped_bpm, stability_counter,
                   measurement_count, qual_run, qual_int, raw_sample, smoothed_sample>>

\* A pulse inside the window that takes its reading for the window start.
CountPulseMovesWindow(now) ==
    /\ ClockHistory("ClockCount", now)
    /\ pulse_count' = pulse_count + 1
    /\ last_pulse_time' = now
    /\ jack_reposition' = FALSE
    /\ UNCHANGED <<current_bpm, last_snapped_bpm, stability_counter,
                   measurement_count, first_clock_received,
                   transport_rolling, jack_state, qual_run, qual_int, raw_sample, smoothed_sample>>

\* calculate_and_set_bpm, a pulse inside the window.
CountPulse(now) ==
    /\ ClockHistory("ClockCount", now)
    /\ pulse_count' = pulse_count + 1
    /\ jack_reposition' = FALSE
    /\ UNCHANGED <<current_bpm, last_snapped_bpm, stability_counter,
                   measurement_count, last_pulse_time, first_clock_received,
                   transport_rolling, jack_state, qual_run, qual_int, raw_sample, smoothed_sample>>

\* A window end that takes an elapsed time of 0 for a sample.
WindowEndAcceptsZero(now) ==
    LET elapsed == now - last_pulse_time
        raw_bpm == RawBpm(elapsed)
        smoothed_bpm == SmoothedBpm(current_bpm, raw_bpm, measurement_count)
        final == snap_bpm(smoothed_bpm, stability_counter, last_snapped_bpm)
    IN  /\ IF elapsed >= 0
           THEN /\ ClockHistory("ClockEstimate", now)
                /\ current_bpm' = final.bpm
                /\ stability_counter' = final.counter
                /\ last_snapped_bpm' = final.target
                /\ measurement_count' = measurement_count + 1
                /\ raw_sample' = raw_bpm
                /\ smoothed_sample' = smoothed_bpm
                /\ jack_reposition' = TRUE
                /\ UNCHANGED <<qual_run, qual_int>>
           ELSE /\ ClockHistory("ClockDiscard", now)
                /\ jack_reposition' = FALSE
                /\ UNCHANGED <<current_bpm, last_snapped_bpm, stability_counter,
                               measurement_count, qual_run, qual_int, raw_sample, smoothed_sample>>
        /\ pulse_count' = 0
        /\ last_pulse_time' = now
        /\ UNCHANGED <<first_clock_received, transport_rolling, jack_state>>

\* A window end that makes an estimate only while the transport rolls.
WindowEndRollingOnly(now) ==
    LET elapsed == now - last_pulse_time
        raw_bpm == RawBpm(elapsed)
        smoothed_bpm == SmoothedBpm(current_bpm, raw_bpm, measurement_count)
        final == snap_bpm(smoothed_bpm, stability_counter, last_snapped_bpm)
        near == NearestInt(smoothed_bpm)
        within == Abs(smoothed_bpm - near) <= 150
    IN  /\ IF elapsed > 0 /\ transport_rolling
           THEN /\ ClockHistory("ClockEstimate", now)
                /\ current_bpm' = final.bpm
                /\ stability_counter' = final.counter
                /\ last_snapped_bpm' = final.target
                /\ measurement_count' = measurement_count + 1
                /\ qual_run' = IF ~within THEN 0
                               ELSE IF qual_run > 0 /\ near = qual_int
                                    THEN Min(qual_run + 1, 3) ELSE 1
                /\ qual_int' = IF within THEN near ELSE qual_int
                /\ raw_sample' = raw_bpm
                /\ smoothed_sample' = smoothed_bpm
                /\ jack_reposition' = TRUE
           ELSE /\ ClockHistory("ClockDiscard", now)
                /\ jack_reposition' = FALSE
                /\ UNCHANGED <<current_bpm, last_snapped_bpm, stability_counter,
                               measurement_count, qual_run, qual_int, raw_sample, smoothed_sample>>
        /\ pulse_count' = 0
        /\ last_pulse_time' = now
        /\ UNCHANGED <<first_clock_received, transport_rolling, jack_state>>

\* calculate_and_set_bpm, the pulse that closes the window: the estimate.
WindowEnd(now) ==
    LET elapsed == now - last_pulse_time
        raw_bpm == RawBpm(elapsed)
        smoothed_bpm == SmoothedBpm(current_bpm, raw_bpm, measurement_count)
        final == snap_bpm(smoothed_bpm, stability_counter, last_snapped_bpm)
        near == NearestInt(smoothed_bpm)
        within == Abs(smoothed_bpm - near) <= 150
    IN  /\ IF elapsed > 0
           THEN /\ ClockHistory("ClockEstimate", now)
                /\ current_bpm' = final.bpm
                /\ stability_counter' = final.counter
                /\ last_snapped_bpm' = final.target
                /\ measurement_count' = measurement_count + 1
                /\ qual_run' = IF ~within THEN 0
                               ELSE IF qual_run > 0 /\ near = qual_int
                                    THEN Min(qual_run + 1, 3) ELSE 1
                /\ qual_int' = IF within THEN near ELSE qual_int
                /\ raw_sample' = raw_bpm
                /\ smoothed_sample' = smoothed_bpm
                /\ jack_reposition' = TRUE
           ELSE /\ ClockHistory("ClockDiscard", now)
                /\ jack_reposition' = FALSE
                /\ UNCHANGED <<current_bpm, last_snapped_bpm, stability_counter,
                               measurement_count, qual_run, qual_int, raw_sample, smoothed_sample>>
        /\ pulse_count' = 0
        /\ last_pulse_time' = now
        /\ UNCHANGED <<first_clock_received, transport_rolling, jack_state>>

\* A Clock handler that closes the window one pulse early.
calculate_and_set_bpm_early(now) ==
    /\ IF ~first_clock_received THEN FirstPulse(now)
       ELSE IF pulse_count + 1 >= PULSES_PER_QUARTER - 1 THEN WindowEnd(now)
       ELSE CountPulse(now)
    /\ UNCHANGED <<posvars, current_frame, hostvars, qryvars, stepvars, audvars>>

\* SND_SEQ_EVENT_CLOCK: calculate_and_set_bpm, with `now` the clock's reading.
calculate_and_set_bpm(now) ==
    /\ IF ~first_clock_received THEN FirstPulse(now)
       ELSE IF pulse_count + 1 >= PULSES_PER_QUARTER THEN WindowEnd(now)
       ELSE CountPulse(now)
    /\ UNCHANGED <<posvars, current_frame, hostvars, qryvars, stepvars, audvars>>

\* A Start that begins a new stability run.
EventStartClearsRun ==
    /\ Intervene("Start")
    /\ jack_reposition' = TRUE
    /\ current_frame' = 0
    /\ bar' = 1 /\ beat' = 1 /\ tick' = 0
    /\ jack_state' = "Rolling"
    /\ transport_rolling' = TRUE
    /\ pulse_count' = 0
    /\ measurement_count' = 0
    /\ first_clock_received' = FALSE
    /\ stability_counter' = 0
    /\ UNCHANGED <<current_bpm, last_pulse_time, last_snapped_bpm,
                   hostvars, qryvars, stepvars, audvars>>

\* A Start that keeps the measurement count.
EventStartKeepCount ==
    /\ Intervene("Start")
    /\ jack_reposition' = TRUE
    /\ current_frame' = 0
    /\ bar' = 1 /\ beat' = 1 /\ tick' = 0
    /\ jack_state' = "Rolling"
    /\ transport_rolling' = TRUE
    /\ pulse_count' = 0
    /\ first_clock_received' = FALSE
    /\ UNCHANGED <<current_bpm, last_pulse_time, last_snapped_bpm, stability_counter,
                   measurement_count, hostvars, qryvars, stepvars, audvars>>

\* SND_SEQ_EVENT_START
EventStart ==
    /\ Intervene("Start")
    /\ jack_reposition' = TRUE
    /\ current_frame' = 0
    /\ bar' = 1 /\ beat' = 1 /\ tick' = 0
    /\ jack_state' = "Rolling"
    /\ transport_rolling' = TRUE
    /\ pulse_count' = 0
    /\ measurement_count' = 0
    /\ first_clock_received' = FALSE
    /\ UNCHANGED <<current_bpm, last_pulse_time, last_snapped_bpm, stability_counter,
                   hostvars, qryvars, stepvars, audvars>>

\* The history left by a Stop.
StopHistory ==
    /\ op' = "Stop"
    /\ stops' = Min(stops + 1, 2)
    /\ stopped_at' = IF transport_rolling /\ a_pc = "idle" THEN current_frame
                     ELSE stopped_at
    /\ steady' = FALSE
    /\ even_gap' = -1
    /\ pulses' = 0
    /\ host_pos' = -1
    /\ trip' = 0
    /\ overlap' = OverlapAfter("Stop")
    /\ phase' = -1
    /\ query_rose' = FALSE
    /\ UNCHANGED <<qual_run, qual_int, raw_sample, smoothed_sample>>

\* A Stop that leaves the first-pulse flag as it is.
EventStopKeepFlag ==
    /\ StopHistory
    /\ jack_reposition' = FALSE
    /\ jack_state' = "Stopped"
    /\ transport_rolling' = FALSE
    /\ pulse_count' = 0
    /\ UNCHANGED <<current_bpm, last_pulse_time, last_snapped_bpm, stability_counter,
                   measurement_count, first_clock_received, posvars, current_frame,
                   hostvars, qryvars, stepvars, audvars>>

\* A Stop that rewinds the frame when the transport is already stopped.
EventStopRewind ==
    /\ StopHistory
    /\ jack_reposition' = FALSE
    /\ jack_state' = "Stopped"
    /\ transport_rolling' = FALSE
    /\ pulse_count' = 0
    /\ first_clock_received' = FALSE
    /\ current_frame' = IF transport_rolling THEN current_frame ELSE 0
    /\ UNCHANGED <<current_bpm, last_pulse_time, last_snapped_bpm, stability_counter,
                   measurement_count, posvars, hostvars, qryvars, stepvars, audvars>>

\* A Stop that forgets the measurements made.
EventStopClearsCount ==
    /\ StopHistory
    /\ jack_reposition' = FALSE
    /\ jack_state' = "Stopped"
    /\ transport_rolling' = FALSE
    /\ pulse_count' = 0
    /\ measurement_count' = 0
    /\ first_clock_received' = FALSE
    /\ UNCHANGED <<current_bpm, last_pulse_time, last_snapped_bpm, stability_counter,
                   posvars, current_frame, hostvars, qryvars, stepvars, audvars>>

\* SND_SEQ_EVENT_STOP
EventStop ==
    /\ StopHistory
    /\ jack_reposition' = FALSE
    /\ jack_state' = "Stopped"
    /\ transport_rolling' = FALSE
    /\ pulse_count' = 0
    /\ first_clock_received' = FALSE
    /\ UNCHANGED <<current_bpm, last_pulse_time, last_snapped_bpm, stability_counter,
                   measurement_count, posvars, current_frame, hostvars, qryvars, stepvars, audvars>>

\* A Continue that rewinds like Start.
EventContinueRewind ==
    /\ Intervene("Continue")
    /\ jack_reposition' = FALSE
    /\ jack_state' = "Rolling"
    /\ transport_rolling' = TRUE
    /\ current_frame' = 0
    /\ bar' = 1 /\ beat' = 1 /\ tick' = 0
    /\ UNCHANGED <<estvars, hostvars, qryvars, stepvars, audvars>>

\* SND_SEQ_EVENT_CONTINUE
EventContinue ==
    /\ Intervene("Continue")
    /\ jack_reposition' = FALSE
    /\ jack_state' = "Rolling"
    /\ transport_rolling' = TRUE
    /\ UNCHANGED <<estvars, posvars, current_frame, hostvars, qryvars, stepvars, audvars>>

----------------------------------------------------------------------------
\* The command thread: reset_transport and the play/pause key.

\* A reset that leaves the frame counter where it is.
reset_transport_keeps_frame ==
    /\ Intervene("reset")
    /\ jack_reposition' = TRUE
    /\ jack_state' = "Stopped"
    /\ transport_rolling' = FALSE
    /\ bar' = 1 /\ beat' = 1 /\ tick' = 0
    /\ pulse_count' = 0
    /\ measurement_count' = 0
    /\ first_clock_received' = FALSE
    /\ UNCHANGED <<current_bpm, last_pulse_time, last_snapped_bpm, stability_counter,
                   current_frame, hostvars, qryvars, stepvars, audvars>>

\* A reset that keeps the measurement count.
reset_transport_keeps_count ==
    /\ Intervene("reset")
    /\ jack_reposition' = TRUE
    /\ jack_state' = "Stopped"
    /\ transport_rolling' = FALSE
    /\ current_frame' = 0
    /\ bar' = 1 /\ beat' = 1 /\ tick' = 0
    /\ pulse_count' = 0
    /\ first_clock_received' = FALSE
    /\ UNCHANGED <<current_bpm, last_pulse_time, last_snapped_bpm, stability_counter,
                   measurement_count, hostvars, qryvars, stepvars, audvars>>

\* A reset that leaves the first-pulse flag as it is.
reset_transport_keeps_flag ==
    /\ Intervene("reset")
    /\ jack_reposition' = TRUE
    /\ jack_state' = "Stopped"
    /\ transport_rolling' = FALSE
    /\ current_frame' = 0
    /\ bar' = 1 /\ beat' = 1 /\ tick' = 0
    /\ pulse_count' = 0
    /\ measurement_count' = 0
    /\ UNCHANGED <<current_bpm, last_pulse_time, last_snapped_bpm, stability_counter,
                   first_clock_received, hostvars, qryvars, stepvars, audvars>>

reset_transport ==
    /\ Intervene("reset")
    /\ jack_reposition' = TRUE
    /\ jack_state' = "Stopped"
    /\ transport_rolling' = FALSE
    /\ current_frame' = 0
    /\ bar' = 1 /\ beat' = 1 /\ tick' = 0
    /\ pulse_count' = 0
    /\ measurement_count' = 0
    /\ first_clock_received' = FALSE
    /\ UNCHANGED <<current_bpm, last_pulse_time, last_snapped_bpm, stability_counter,
                   hostvars, qryvars, stepvars, audvars>>

toggle_play_pause ==
    /\ Intervene("toggle")
    /\ jack_reposition' = FALSE
    /\ IF jack_state = "Rolling"
       THEN jack_state' = "Stopped" /\ transport_rolling' = FALSE
       ELSE jack_state' = "Rolling" /\ transport_rolling' = TRUE
    /\ UNCHANGED <<estvars, posvars, current_frame, hostvars, qryvars, stepvars, audvars>>

----------------------------------------------------------------------------
\* The audio-block callback: jack_process_callback(nframes), "advance".

\* The history left by a step of the audio callback.
AdvanceHistory ==
    /\ op' = "advance"
    /\ stops' = 0
    /\ steady' = FALSE
    /\ even_gap' = -1
    /\ pulses' = 0
    /\ host_pos' = -1
    /\ trip' = (IF trip \in {1, 2} THEN (IF a_pc = "store" THEN 2 ELSE trip) ELSE 0)
    /\ overlap' = (IF a_pc = "idle" THEN "none" ELSE overlap)
    /\ query_rose' = FALSE
    /\ UNCHANGED <<stopped_at, qual_run, qual_int, raw_sample, smoothed_sample, phase>>

\* A call that advances whether or not the transport rolls.
ProcessEnterAlways(nframes) ==
    /\ a_pc = "idle"
    /\ current_frame <= MaxFrame - nframes
    /\ AdvanceHistory
    /\ jack_reposition' = FALSE
    /\ a_pc' = "load" /\ a_n' = nframes
    /\ UNCHANGED <<estvars, posvars, transport_rolling, current_frame, jack_state,
                   hostvars, qryvars, stepvars, a_cur>>

\* The call begins: transport_rolling.load().  When not rolling it returns.
ProcessEnter(nframes) ==
    /\ a_pc = "idle"
    /\ current_frame <= MaxFrame - nframes
    /\ AdvanceHistory
    /\ jack_reposition' = FALSE
    /\ IF transport_rolling
       THEN a_pc' = "load" /\ a_n' = nframes
       ELSE a_pc' = "idle" /\ a_n' = a_n
    /\ UNCHANGED <<estvars, posvars, transport_rolling, current_frame, jack_state,
                   hostvars, qryvars, stepvars, a_cur>>

\* current = current_frame.load()
ProcessLoad ==
    /\ a_pc = "load"
    /\ a_pc' = "store"
    /\ a_cur' = current_frame
    /\ AdvanceHistory
    /\ jack_reposition' = FALSE
    /\ UNCHANGED <<estvars, posvars, transport_rolling, current_frame, jack_state,
                   hostvars, qryvars, stepvars, a_n>>

\* A store that goes back to the load when the counter has changed meanwhile.
ProcessStoreRetries ==
    /\ a_pc = "store"
    /\ AdvanceHistory
    /\ jack_reposition' = FALSE
    /\ IF current_frame = a_cur
       THEN /\ current_frame' = UInt32Add(a_cur, a_n)
            /\ a_pc' = "idle" /\ a_n' = 0 /\ a_cur' = 0
       ELSE /\ a_pc' = "load"
            /\ UNCHANGED <<current_frame, a_n, a_cur>>
    /\ UNCHANGED <<estvars, posvars, transport_rolling, jack_state, hostvars, qryvars, stepvars>>

\* current_frame.store(current + nframes), and the call returns.
ProcessStore ==
    /\ a_pc = "store"
    /\ current_frame' = UInt32Add(a_cur, a_n)
    /\ a_pc' = "idle" /\ a_n' = 0 /\ a_cur' = 0
    /\ AdvanceHistory
    /\ jack_reposition' = FALSE
    /\ UNCHANGED <<estvars, posvars, transport_rolling, jack_state, hostvars, qryvars, stepvars>>

----------------------------------------------------------------------------
\* The timebase callback: jack_timebase_callback(pos, new_pos), "query".
\* pos_frame is pos->frame as the host hands it in.  The position it returns
\* in *pos is the one it stores in bar, beat, tick.

\* A timebase callback the host runs although the registration failed.
jack_timebase_callback_unregistered(pos_frame, new_pos) ==
    /\ QueryHistory(pos_frame, new_pos)
    /\ jack_reposition' = FALSE
    /\ LET bpm == current_bpm
           frame == IF new_pos THEN current_frame ELSE pos_frame
           pos == Position(frame, bpm, sample_rate)
       IN  /\ current_frame' = frame
           /\ bar' = pos.bar
           /\ beat' = pos.beat
           /\ tick' = pos.tick
    /\ UNCHANGED <<estvars, transport_rolling, jack_state, hostvars, qryvars, stepvars, audvars>>

jack_timebase_callback(pos_frame, new_pos) ==
    /\ timebase_master
    /\ QueryHistory(pos_frame, new_pos)
    /\ jack_reposition' = FALSE
    /\ LET bpm == current_bpm
           frame == IF new_pos THEN current_frame ELSE pos_frame
           pos == Position(frame, bpm, sample_rate)
       IN  /\ current_frame' = frame
           /\ bar' = pos.bar
           /\ beat' = pos.beat
           /\ tick' = pos.tick
    /\ UNCHANGED <<estvars, transport_rolling, jack_state, hostvars, qryvars, stepvars, audvars>>

----------------------------------------------------------------------------
\* calculate_and_set_bpm and reset_transport one access to the shared state
\* at a time.  reset_transport runs on the command thread or in the SIGUSR2
\* handler, so its stores can fall between any two accesses of the Clock
\* handler.  last_pulse_time, last_snapped_bpm and stability_counter are
\* touched by the event loop only, and are written along with the neighbouring
\* access.

\* The history left by one such step.
StepHistory(name) ==
    /\ op' = name
    /\ stops' = 0
    /\ stopped_at' = -1
    /\ steady' = FALSE
    /\ even_gap' = -1
    /\ pulses' = 0
    /\ host_pos' = -1
    /\ trip' = 0
    /\ overlap' = OverlapAfter(name)
    /\ phase' = -1
    /\ query_rose' = FALSE

\* now = clock::now(); count = pulse_count.load()
ClockLoadCount(now) ==
    /\ c_pc = "idle"
    /\ StepHistory("clock_load")
    /\ c_pc' = "flag" /\ c_now' = now /\ c_count' = pulse_count /\ c_trace' = <<>>
    /\ jack_reposition' = FALSE
    /\ UNCHANGED <<estvars, posvars, transport_rolling, current_frame, jack_state,
                   hostvars, qryvars, audvars, r_pc, qual_run, qual_int, raw_sample,
                   smoothed_sample>>

\* A test that lets the count reach 24 before the window closes.
ClockLoadFlagLate ==
    /\ c_pc = "flag"
    /\ StepHistory("clock_flag")
    /\ IF ~first_clock_received
       THEN c_pc' = "first" /\ c_count' = c_count
       ELSE /\ c_count' = c_count + 1
            /\ c_pc' = IF c_count + 1 > PULSES_PER_QUARTER THEN "window" ELSE "count"
    /\ jack_reposition' = FALSE
    /\ UNCHANGED <<estvars, posvars, transport_rolling, current_frame, jack_state,
                   hostvars, qryvars, audvars, c_now, c_trace, r_pc, qual_run, qual_int,
                   raw_sample, smoothed_sample>>

\* if (!first_clock_received.load()) ...; count++; if (count >= 24) ... else ...
ClockLoadFlag ==
    /\ c_pc = "flag"
    /\ StepHistory("clock_flag")
    /\ IF ~first_clock_received
       THEN c_pc' = "first" /\ c_count' = c_count
       ELSE /\ c_count' = c_count + 1
            /\ c_pc' = IF c_count + 1 >= PULSES_PER_QUARTER THEN "window" ELSE "count"
    /\ jack_reposition' = FALSE
    /\ UNCHANGED <<estvars, posvars, transport_rolling, current_frame, jack_state,
                   hostvars, qryvars, audvars, c_now, c_trace, r_pc, qual_run, qual_int,
                   raw_sample, smoothed_sample>>

\* first_clock_received.store(true); last_pulse_time = now
ClockFirstFlag ==
    /\ c_pc = "first"
    /\ StepHistory("clock_first")
    /\ first_clock_received' = TRUE
    /\ last_pulse_time' = c_now
    /\ c_pc' = "first_count"
    /\ jack_reposition' = FALSE
    /\ UNCHANGED <<current_bpm, pulse_count, last_snapped_bpm, stability_counter,
                   measurement_count, posvars, transport_rolling, current_frame,
                   jack_state, hostvars, qryvars, audvars, c_now, c_count, c_trace, r_pc,
                   qual_run, qual_int, raw_sample, smoothed_sample>>

\* pulse_count.store(0), first pulse
ClockFirstCount ==
    /\ c_pc = "first_count"
    /\ StepHistory("clock_first")
    /\ pulse_count' = 0
    /\ c_pc' = "first_roll"
    /\ jack_reposition' = FALSE
    /\ UNCHANGED <<current_bpm, last_pulse_time, first_clock_received,
                   last_snapped_bpm, stability_counter, measurement_count, posvars,
                   transport_rolling, current_frame, jack_state, hostvars, qryvars, audvars,
                   c_now, c_count, c_trace, r_pc, qual_run, qual_int, raw_sample,
                   smoothed_sample>>

\* if (!transport_rolling.load()) { jack_transport_start; store(true) }; return
ClockFirstRoll ==
    /\ c_pc = "first_roll"
    /\ StepHistory(IF transport_rolling THEN "ClockFirst" ELSE "ClockAutoStart")
    /\ transport_rolling' = TRUE
    /\ jack_state' = IF transport_rolling THEN jack_state ELSE "Rolling"
    /\ c_pc' = "idle"
    /\ jack_reposition' = FALSE
    /\ UNCHANGED <<estvars, posvars, current_frame, hostvars, qryvars, audvars, c_now,
                   c_count, c_trace, r_pc, qual_run, qual_int, raw_sample,
                   smoothed_sample>>

\* pulse_count.store(count); return
ClockStoreCount ==
    /\ c_pc = "count"
    /\ StepHistory("ClockCount")
    /\ pulse_count' = c_count
    /\ c_pc' = "idle"
    /\ jack_reposition' = FALSE
    /\ UNCHANGED <<current_bpm, last_pulse_time, first_clock_received,
                   last_snapped_bpm, stability_counter, measurement_count, posvars,
                   transport_rolling, current_frame, jack_state, hostvars, qryvars, audvars,
                   c_now, c_count, c_trace, r_pc, qual_run, qual_int, raw_sample,
                   smoothed_sample>>

\* The window closes: elapsed, and when it is positive the blend, snap_bpm and
\* current_bpm.store(final_bpm).
ClockStoreBpm ==
    /\ c_pc = "window"
    /\ LET elapsed == c_now - last_pulse_time
           raw_bpm == RawBpm(elapsed)
           smoothed_bpm == SmoothedBpm(current_bpm, raw_bpm, measurement_count)
           final == snap_bpm(smoothed_bpm, stability_counter, last_snapped_bpm)
           near == NearestInt(smoothed_bpm)
           within == Abs(smoothed_bpm - near) <= BPM_SNAP_THRESHOLD
       IN  IF elapsed > 0
           THEN /\ StepHistory("clock_bpm")
                /\ current_bpm' = final.bpm
                /\ stability_counter' = final.counter
                /\ last_snapped_bpm' = final.target
                /\ qual_run' = IF ~within THEN 0
                               ELSE IF qual_run > 0 /\ near = qual_int
                                    THEN Min(qual_run + 1, 3) ELSE 1
                /\ qual_int' = IF within THEN near ELSE qual_int
                /\ raw_sample' = raw_bpm
                /\ smoothed_sample' = smoothed_bpm
                /\ c_trace' = <<"bpm">>
                /\ c_pc' = "inc"
           ELSE /\ StepHistory("clock_discard")
                /\ c_pc' = "close"
                /\ UNCHANGED <<current_bpm, stability_counter, last_snapped_bpm,
                               qual_run, qual_int, raw_sample, smoothed_sample,
                               c_trace>>
    /\ jack_reposition' = FALSE
    /\ UNCHANGED <<pulse_count, last_pulse_time, first_clock_received,
                   measurement_count, posvars, transport_rolling, current_frame,
                   jack_state, hostvars, qryvars, audvars, c_now, c_count, r_pc>>

\* A handler that leaves the measurement count as it is.
ClockIncrementForgets ==
    /\ c_pc = "inc"
    /\ StepHistory("clock_inc")
    /\ c_trace' = Append(c_trace, "count")
    /\ c_pc' = "repos"
    /\ jack_reposition' = FALSE
    /\ UNCHANGED <<estvars, posvars, transport_rolling,
                   current_frame, jack_state, hostvars, qryvars, audvars, c_now, c_count,
                   r_pc, qual_run, qual_int, raw_sample, smoothed_sample>>

\* measurement_count++
ClockIncrement ==
    /\ c_pc = "inc"
    /\ StepHistory("clock_inc")
    /\ measurement_count' = measurement_count + 1
    /\ c_trace' = Append(c_trace, "count")
    /\ c_pc' = "repos"
    /\ jack_reposition' = FALSE
    /\ UNCHANGED <<current_bpm, pulse_count, last_pulse_time, first_clock_received,
                   last_snapped_bpm, stability_counter, posvars, transport_rolling,
                   current_frame, jack_state, hostvars, qryvars, audvars, c_now, c_count,
                   r_pc, qual_run, qual_int, raw_sample, smoothed_sample>>

\* update_jack_transport_bpm(final_bpm): jack_transport_reposition
ClockReposition ==
    /\ c_pc = "repos"
    /\ StepHistory("clock_reposition")
    /\ jack_reposition' = TRUE
    /\ c_trace' = Append(c_trace, "reposition")
    /\ c_pc' = "close"
    /\ UNCHANGED <<estvars, posvars, transport_rolling, current_frame, jack_state,
                   hostvars, qryvars, audvars, c_now, c_count, r_pc, qual_run, qual_int,
                   raw_sample, smoothed_sample>>

\* pulse_count.store(0); last_pulse_time = now; return
ClockClose ==
    /\ c_pc = "close"
    /\ StepHistory(IF c_trace = <<>> THEN "ClockDiscard" ELSE "ClockEstimate")
    /\ pulse_count' = 0
    /\ last_pulse_time' = c_now
    /\ c_pc' = "idle"
    /\ jack_reposition' = FALSE
    /\ UNCHANGED <<current_bpm, first_clock_received, last_snapped_bpm,
                   stability_counter, measurement_count, posvars, transport_rolling,
                   current_frame, jack_state, hostvars, qryvars, audvars, c_now, c_count,
                   c_trace, r_pc, qual_run, qual_int, raw_sample, smoothed_sample>>

\* reset_transport up to the reposition: stop, frame 0, position 1:1:0.
ResetRewind ==
    /\ r_pc = "idle"
    /\ StepHistory("reset_rewind")
    /\ jack_state' = "Stopped"
    /\ transport_rolling' = FALSE
    /\ current_frame' = 0
    /\ bar' = 1 /\ beat' = 1 /\ tick' = 0
    /\ jack_reposition' = TRUE
    /\ r_pc' = "count"
    /\ UNCHANGED <<estvars, hostvars, qryvars, audvars, c_pc, c_now, c_count, c_trace,
                   qual_run, qual_int, raw_sample, smoothed_sample>>

\* pulse_count.store(0)
ResetCount ==
    /\ r_pc = "count"
    /\ StepHistory("reset_count")
    /\ pulse_count' = 0
    /\ r_pc' = "measure"
    /\ jack_reposition' = FALSE
    /\ UNCHANGED <<current_bpm, last_pulse_time, first_clock_received,
                   last_snapped_bpm, stability_counter, measurement_count, posvars,
                   transport_rolling, current_frame, jack_state, hostvars, qryvars, audvars,
                   c_pc, c_now, c_count, c_trace, qual_run, qual_int, raw_sample,
                   smoothed_sample>>

\* measurement_count.store(0)
ResetMeasure ==
    /\ r_pc = "measure"
    /\ StepHistory("reset_measure")
    /\ measurement_count' = 0
    /\ r_pc' = "flag"
    /\ jack_reposition' = FALSE
    /\ UNCHANGED <<current_bpm, pulse_count, last_pulse_time, first_clock_received,
                   last_snapped_bpm, stability_counter, posvars, transport_rolling,
                   current_frame, jack_state, hostvars, qryvars, audvars, c_pc, c_now,
                   c_count, c_trace, qual_run, qual_int, raw_sample,
                   smoothed_sample>>

\* first_clock_received.store(false); return
ResetFlag ==
    /\ r_pc = "flag"
    /\ StepHistory("reset")
    /\ first_clock_received' = FALSE
    /\ r_pc' = "idle"
    /\ jack_reposition' = FALSE
    /\ UNCHANGED <<current_bpm, pulse_count, last_pulse_time, last_snapped_bpm,
                   stability_counter, measurement_count, posvars, transport_rolling,
                   current_frame, jack_state, hostvars, qryvars, audvars, c_pc, c_now,
                   c_count, c_trace, qual_run, qual_int, raw_sample,
                   smoothed_sample>>

----------------------------------------------------------------------------
\* jack_timebase_callback one access to the shared state at a time: the event
\* loop can store a new tempo between the callback's load of current_bpm and
\* its stores of the position.

\* double bpm = current_bpm.load(), in a call handed pos_frame and new_pos.
QueryLoadBpm(pos_frame, new_pos) ==
    /\ timebase_master
    /\ q_pc = "idle"
    /\ StepHistory("query_load")
    /\ q_pc' = "frame" /\ q_bpm' = current_bpm
    /\ q_frame' = pos_frame /\ q_np' = new_pos
    /\ jack_reposition' = FALSE
    /\ UNCHANGED <<estvars, posvars, transport_rolling, current_frame, jack_state,
                   sample_rate, timebase_master, audvars, stepvars, qual_run,
                   qual_int, raw_sample, smoothed_sample>>

\* if (new_pos) pos->frame = current_frame.load(); else current_frame.store(pos->frame)
QueryFrame ==
    /\ q_pc = "frame"
    /\ StepHistory("query_frame")
    /\ q_pc' = "store"
    /\ IF q_np
       THEN q_frame' = current_frame /\ UNCHANGED current_frame
       ELSE current_frame' = q_frame /\ UNCHANGED q_frame
    /\ jack_reposition' = FALSE
    /\ UNCHANGED <<estvars, posvars, transport_rolling, jack_state, sample_rate,
                   timebase_master, audvars, stepvars, q_bpm, q_np, qual_run,
                   qual_int, raw_sample, smoothed_sample>>

\* A callback that computes the position from the tempo stored by then.
QueryStoreRereadsBpm ==
    /\ q_pc = "store"
    /\ StepHistory("query_store")
    /\ q_pc' = "idle"
    /\ LET pos == Position(q_frame, current_bpm, sample_rate)
       IN  bar' = pos.bar /\ beat' = pos.beat /\ tick' = pos.tick
    /\ jack_reposition' = FALSE
    /\ UNCHANGED <<estvars, transport_rolling, current_frame, jack_state,
                   sample_rate, timebase_master, audvars, stepvars, q_bpm, q_frame,
                   q_np, qual_run, qual_int, raw_sample, smoothed_sample>>

\* The position from pos->frame and bpm; bar.store, beat.store, tick.store; return.
QueryStore ==
    /\ q_pc = "store"
    /\ StepHistory("query_store")
    /\ q_pc' = "idle"
    /\ LET pos == Position(q_frame, q_bpm, sample_rate)
       IN  bar' = pos.bar /\ beat' = pos.beat /\ tick' = pos.tick
    /\ jack_reposition' = FALSE
    /\ UNCHANGED <<estvars, transport_rolling, current_frame, jack_state,
                   sample_rate, timebase_master, audvars, stepvars, q_bpm, q_frame,
                   q_np, qual_run, qual_int, raw_sample, smoothed_sample>>

----------------------------------------------------------------------------
\* The program under its environment: every context, pulses at 120 BPM.

Next ==
    \/ \E g \in Gaps : PulseTime(g) <= MaxTime /\ calculate_and_set_bpm(PulseTime(g))
    \/ EventStart
    \/ EventStop
    \/ EventContinue
    \/ reset_transport
    \/ toggle_play_pause
    \/ \E n \in Buffers : ProcessEnter(n)
    \/ ProcessLoad
    \/ ProcessStore
    \/ \E f \in HostFrames, np \in BOOLEAN : jack_timebase_callback(f, np)

Spec == Init /\ [][Next]_vars

\* The estimator alone, under a wider range of pulse spacings: the operations
\* of the event loop and the reset command, on a host whose transport
\* is stopped at start-up and whose timebase belongs to another client.
InitTempo ==
    /\ InitProgram
    /\ InitHistory
    /\ sample_rate \in SampleRates
    /\ jack_state = "Stopped"
    /\ timebase_master = FALSE

NextTempo ==
    \/ \E g \in TempoGaps :
          PulseTime(g) <= MaxTempoTime /\ calculate_and_set_bpm(PulseTime(g))
    \/ EventStart
    \/ EventStop
    \/ EventContinue
    \/ reset_transport

SpecTempo == InitTempo /\ [][NextTempo]_vars

\* The estimator alone, read off a clock that can stall or be set back
\* (high_resolution_clock is not required to be steady).
NextAnomaly ==
    \/ \E g \in AnomalyGaps :
          /\ PulseTime(g) \in 0..MaxAnomalyTime
          /\ measurement_count < MaxAnomalySamples
          /\ stability_counter < MaxAnomalySamples
          /\ calculate_and_set_bpm(PulseTime(g))
    \/ EventStart
    \/ EventStop
    \/ EventContinue
    \/ reset_transport

SpecAnomaly == InitTempo /\ [][NextAnomaly]_vars

\* Every context, with the event loop reading that clock.
NextCount ==
    \/ \E g \in AnomalyGaps :
          /\ PulseTime(g) \in 0..MaxAnomalyTime
          /\ measurement_count < MaxAnomalySamples
          /\ stability_counter < MaxAnomalySamples
          /\ calculate_and_set_bpm(PulseTime(g))
    \/ EventStart
    \/ EventStop
    \/ EventContinue
    \/ reset_transport
    \/ toggle_play_pause
    \/ \E n \in Buffers : ProcessEnter(n)
    \/ ProcessLoad
    \/ ProcessStore
    \/ \E f \in HostFrames, np \in BOOLEAN : jack_timebase_callback(f, np)

SpecCount == Init /\ [][NextCount]_vars

\* The timebase callback alone, as the host's timebase master, for a range of
\* stored tempi, sample rates and frames.
InitPos ==
    /\ InitHistory
    /\ current_bpm \in PosBpms
    /\ pulse_count = 0
    /\ last_pulse_time = 0
    /\ transport_rolling = FALSE
    /\ first_clock_received = FALSE
    /\ last_snapped_bpm = 0
    /\ stability_counter = 0
    /\ measurement_count = 0
    /\ bar = 1 /\ beat = 1 /\ tick = 0
    /\ current_frame = 0
    /\ a_pc = "idle" /\ a_n = 0 /\ a_cur = 0
    /\ jack_reposition = FALSE
    /\ c_pc = "idle" /\ c_now = 0 /\ c_count = 0 /\ c_trace = <<>>
    /\ r_pc = "idle"
    /\ q_pc = "idle" /\ q_bpm = 0 /\ q_frame = 0 /\ q_np = FALSE
    /\ sample_rate \in PosRates
    /\ jack_state = "Stopped"
    /\ timebase_master = TRUE

NextPos == \E f \in PosFrames, np \in BOOLEAN : jack_timebase_callback(f, np)

SpecPos == InitPos /\ [][NextPos]_vars

\* The Clock handler against a concurrent reset, one access at a time: pulses
\* at 120 BPM off a clock that advances, Start and Stop between two pulses (they
\* run on the event loop's thread), reset at any point.
NextRace ==
    \/ \E g \in Gaps : c_now + g <= MaxRaceTime /\ ClockLoadCount(c_now + g)
    \/ ClockLoadFlag
    \/ ClockFirstFlag
    \/ ClockFirstCount
    \/ ClockFirstRoll
    \/ ClockStoreCount
    \/ ClockStoreBpm
    \/ ClockIncrement
    \/ ClockReposition
    \/ ClockClose
    \/ c_pc = "idle" /\ r_pc = "idle" /\ EventStart
    \/ c_pc = "idle" /\ r_pc = "idle" /\ EventStop
    \/ ResetRewind
    \/ ResetCount
    \/ ResetMeasure
    \/ ResetFlag

SpecRace == InitTempo /\ [][NextRace]_vars

\* The Clock handler, one access at a time, against the timebase callback of
\* a host that granted the timebase: pulses at 120 BPM off a clock that advances.
InitPublish ==
    /\ InitProgram
    /\ InitHistory
    /\ sample_rate \in SampleRates
    /\ jack_state = "Stopped"
    /\ timebase_master = TRUE

NextPublish ==
    \/ \E g \in Gaps : c_now + g <= MaxPublishTime /\ ClockLoadCount(c_now + g)
    \/ ClockLoadFlag
    \/ ClockFirstFlag
    \/ ClockFirstCount
    \/ ClockFirstRoll
    \/ ClockStoreCount
    \/ ClockStoreBpm
    \/ ClockIncrement
    \/ ClockReposition
    \/ ClockClose
    \/ \E f \in HostFrames, np \in BOOLEAN : jack_timebase_callback(f, np)

SpecPublish == InitPublish /\ [][NextPublish]_vars

\* The timebase callback, one access at a time, against the Clock handler one
\* access at a time and the Stop event: pulses at 100 BPM.
NextQuery ==
    \/ \E g \in QueryGaps : c_now + g <= MaxQueryTime /\ ClockLoadCount(c_now + g)
    \/ ClockLoadFlag
    \/ ClockFirstFlag
    \/ ClockFirstCount
    \/ ClockFirstRoll
    \/ ClockStoreCount
    \/ ClockStoreBpm
    \/ ClockIncrement
    \/ ClockReposition
    \/ ClockClose
    \/ c_pc = "idle" /\ EventStop
    \/ \E f \in HostFrames, np \in BOOLEAN : QueryLoadBpm(f, np)
    \/ QueryFrame
    \/ QueryStore

SpecQuery == InitPublish /\ [][NextQuery]_vars

\* The estimator after a source has held a whole tempo long enough for the
\* estimator to lock on it (an estimate has just snapped to it), when the
\* source goes to 125 BPM or to 20.8333 BPM.
InitBlend ==
    /\ current_bpm \in BlendBpms
    /\ measurement_count \in BlendCounts
    /\ last_snapped_bpm = current_bpm
    /\ stability_counter = BPM_STABILITY_COUNT
    /\ pulse_count = 0
    /\ last_pulse_time = 0
    /\ first_clock_received = TRUE
    /\ transport_rolling = TRUE
    /\ jack_state = "Rolling"
    /\ jack_reposition = TRUE
    /\ bar = 1 /\ beat = 1 /\ tick = 0
    /\ current_frame = 0
    /\ a_pc = "idle" /\ a_n = 0 /\ a_cur = 0
    /\ c_pc = "idle" /\ c_now = 0 /\ c_count = 0 /\ c_trace = <<>>
    /\ r_pc = "idle"
    /\ q_pc = "idle" /\ q_bpm = 0 /\ q_frame = 0 /\ q_np = FALSE
    /\ sample_rate \in SampleRates
    /\ timebase_master = FALSE
    /\ op = "ClockEstimate"
    /\ stops = 0
    /\ stopped_at = -1
    /\ qual_run = BPM_STABILITY_COUNT
    /\ qual_int = current_bpm
    /\ steady = FALSE
    /\ even_gap = -1
    /\ pulses = 0
    /\ raw_sample = current_bpm
    /\ smoothed_sample = current_bpm
    /\ host_pos = -1
    /\ trip = 0
    /\ overlap = "none"
    /\ phase = 0
    /\ query_rose = FALSE

NextBlend ==
    \E g \in BlendGaps :
        measurement_count < MaxBlendSamples /\ calculate_and_set_bpm(PulseTime(g))

SpecBlend == InitBlend /\ [][NextBlend]_vars

\* The frame counter close to the end of its range: a host whose transport
\* another client has taken to the last frames before 2^32 (at 48000 Hz, a
\* little under 24 hours 52 minutes).
InitWrap ==
    /\ InitProgram
    /\ InitHistory
    /\ sample_rate \in SampleRates
    /\ jack_state = "Stopped"
    /\ timebase_master = TRUE

NextWrap ==
    \/ EventStart
    \/ EventStop
    \/ \E n \in Buffers : current_frame >= -MaxWrapFrames /\ ProcessEnter(n)
    \/ ProcessLoad
    \/ ProcessStore
    \/ \E f \in WrapFrames, np \in BOOLEAN : jack_timebase_callback(f, np)

SpecWrap == InitWrap /\ [][NextWrap]_vars

----------------------------------------------------------------------------
\* Properties.

\* C1: once a Stop has been processed while Rolling at frame F (no audio call
\* in flight), the frame counter stays at F through every later audio call,
\* for as long as no Start, Continue, Clock, toggle, reset or query intervenes.
C1_StopFreezesFrame == stopped_at # -1 => current_frame = stopped_at

\* An audio call has run to completion after a Stop at a frame above 0.
C1_Witness == stopped_at > 0 /\ op = "advance" /\ a_pc = "idle"

\* C2: after a Start, whatever the state before it, the frame is 0, the cached
\* position is 1:1:0, the pulse and measurement counts are 0, the first-pulse
\* flag is clear and the transport rolls.
C2_StartResets ==
    op = "Start" =>
        /\ current_frame = 0
        /\ bar = 1 /\ beat = 1 /\ tick = 0
        /\ pulse_count = 0
        /\ measurement_count = 0
        /\ ~first_clock_received
        /\ transport_rolling

\* A Start processed after the estimator has produced an estimate.
C2_Witness == op = "Start" /\ stability_counter > 0 /\ current_bpm # INITIAL_BPM

\* C3: a Stop leaves the transport stopped, the pulse count 0 and the
\* first-pulse flag clear, and keeps the frame, the cached position, the tempo
\* and the measurement count; the Clock pulse that follows is a first pulse: it
\* opens a window (flag set, pulse count 0) and leaves
\* the tempo, the measurement count and the stability state alone.
C3_StopThenFirstPulse ==
    [][ /\ op' = "Stop" =>
              /\ ~transport_rolling'
              /\ pulse_count' = 0
              /\ ~first_clock_received'
              /\ UNCHANGED <<current_frame, bar, beat, tick, current_bpm,
                             measurement_count>>
        /\ (op = "Stop" /\ op' \in {"ClockAutoStart", "ClockFirst", "ClockCount",
                                   "ClockEstimate", "ClockDiscard"}) =>
              /\ op' = "ClockAutoStart"
              /\ first_clock_received'
              /\ pulse_count' = 0
              /\ UNCHANGED <<current_bpm, measurement_count, stability_counter,
                             last_snapped_bpm>>
      ]_vars

\* A first pulse taken while stopped with estimates already made, which only a
\* Stop leaves behind.
C3_Witness == op = "ClockAutoStart" /\ measurement_count > 0 /\ ~(current_bpm = INITIAL_BPM)

\* C4: a Stop processed right after a Stop changes nothing in the program's state.
C4_StopIdempotent == [][(op = "Stop" /\ op' = "Stop") => UNCHANGED progvars]_vars

\* Two Stops in a row, away from the initial position.
C4_Witness == stops = 2 /\ current_frame > 0 /\ measurement_count > 0

\* C5: a Continue sets the transport rolling and keeps the frame, the cached
\* position and the whole estimator state (tempo, counts, flag, window start).
C5_ContinueResumesInPlace ==
    [][op' = "Continue" =>
          /\ transport_rolling'
          /\ UNCHANGED <<current_frame, posvars, estvars>>]_vars

\* A Continue in the middle of a window, at a frame above 0.
C5_Witness ==
    op = "Continue" /\ current_frame > 0 /\ pulse_count > 0 /\ first_clock_received

\* C6: a Clock pulse taken with the first-pulse flag clear leaves the transport
\* rolling (starting it when it was stopped) and keeps the frame and the cached
\* position.
C6_FirstPulseAutoStart ==
    [][(~first_clock_received /\ op' \in {"ClockAutoStart", "ClockFirst", "ClockCount",
                                          "ClockEstimate", "ClockDiscard"}) =>
          /\ transport_rolling'
          /\ op' = (IF transport_rolling THEN "ClockFirst" ELSE "ClockAutoStart")
          /\ UNCHANGED <<current_frame, posvars>>]_vars

\* An auto-start away from the initial position.
C6_Witness == op = "ClockAutoStart" /\ current_frame > 0 /\ beat > 1

\* C7: the stored tempo is always within [20, 300] BPM.
C7_BpmInRange == MIN_BPM <= current_bpm /\ current_bpm <= MAX_BPM

\* The first estimate, from a window of 3.12 s (19.2 BPM): the sample enters the
\* blend as 20 BPM.
C7_Witness == op = "ClockEstimate" /\ current_bpm = Blend(INITIAL_BPM, MIN_BPM, FAST_WEIGHT)

\* C8: when the last three estimates each smoothed to within 0.15 BPM of the
\* same integer, the stored tempo is that integer; and after three estimates
\* from pulses 20833 microseconds apart, from the initial state, it is 120.
C8_SnapConvergence ==
    /\ qual_run >= 3 => current_bpm = qual_int
    /\ (steady /\ measurement_count >= 3) => current_bpm = 120 * BpmUnit

\* The third estimate of the steady 20833-microsecond source.
C8_Witness ==
    steady /\ op = "ClockEstimate" /\ measurement_count = 3 /\ qual_run = 3

C10_PositionInRange == bar >= 1 /\ beat \in 1..4 /\ tick \in 0..1919

\* A query one bar in: the beat has wrapped to 1.
C10_Witness == op = "query" /\ current_frame = 96000 /\ bar = 2 /\ beat = 1

\* C11: a query handed new_pos set computes the position from the frame the
\* host supplied and leaves the frame counter at that frame.
C11_RelocationHonoured ==
    host_pos # -1 =>
        /\ current_frame = host_pos
        /\ <<bar, beat, tick>> =
              LET pos == Position(host_pos, current_bpm, sample_rate)
              IN  <<pos.bar, pos.beat, pos.tick>>

\* C12: Start, then audio calls run to completion (queries in between), then
\* reset: the frame is 0 and the cached position 1:1:0.
C12_RoundTrip ==
    trip = 3 => current_frame = 0 /\ bar = 1 /\ beat = 1 /\ tick = 0

\* The reset of such a round trip has been processed.
C12_Witness == trip = 3 /\ op = "reset" /\ a_pc = "idle"

\* C13 as stated: after a reset the shared transport state is what a Start
\* leaves (frame 0, position 1:1:0, pulse and measurement counts 0, first-pulse
\* flag clear, transport Rolling).
C13_ResetAsStart ==
    op = "reset" =>
        /\ current_frame = 0
        /\ bar = 1 /\ beat = 1 /\ tick = 0
        /\ pulse_count = 0
        /\ measurement_count = 0
        /\ ~first_clock_received
        /\ transport_rolling

\* C13 as amended: after a reset the frame, the cached position, the pulse and
\* measurement counts and the first-pulse flag are what a Start leaves; the
\* transport is Stopped, where a Start leaves it Rolling.
C13_ResetAsStartButStopped ==
    op = "reset" =>
        /\ current_frame = 0
        /\ bar = 1 /\ beat = 1 /\ tick = 0
        /\ pulse_count = 0
        /\ measurement_count = 0
        /\ ~first_clock_received
        /\ ~transport_rolling
        /\ jack_state = "Stopped"

\* A reset processed after the estimator has produced an estimate.
C13_Witness == op = "reset" /\ stability_counter > 0 /\ raw_sample > 0

\* C14: a toggle flips the mode (Rolling to Stopped, Stopped to Rolling) and
\* leaves the frame, the cached position, the tempo and the estimator alone.
C14_ToggleFlipsMode ==
    [][op' = "toggle" =>
          /\ transport_rolling' = ~transport_rolling
          /\ UNCHANGED <<current_frame, posvars, estvars>>]_vars

\* C15: the audio callback and the timebase callback never wait: whatever the
\* other contexts have done, a call in progress can take its next step, that
\* step moves it forward (load, then store, then return), and a query (here
\* one for frame 0) can run to its end.
C15_RealTimeNeverBlocks ==
    /\ a_pc = "load" => ENABLED (ProcessLoad /\ a_pc' = "store")
    /\ a_pc = "store" => ENABLED (ProcessStore /\ a_pc' = "idle")
    /\ timebase_master => ENABLED jack_timebase_callback(0, FALSE)

\* An audio call has completed although a Start or reset came in between.
C15_Witness == op = "advance" /\ a_pc = "idle" /\ overlap = "reset"

\* C16: when a Start or reset has stored frame 0 during an audio call, and
\* nothing else of the other contexts touched the frame or the mode, the frame
\* after the call is 0 or the call's nframes.
C16_ResetNotLost ==
    (op = "advance" /\ a_pc = "idle" /\ overlap = "reset") =>
        current_frame \in ({0} \cup Buffers)

\* C17: once a Stop, or a toggle to Stopped, has come in during an audio call,
\* no step of that call increases the frame.
C17_NoAdvanceAfterStop ==
    [][(overlap = "stop" /\ op' = "advance") => current_frame' <= current_frame]_vars

\* C18: without the timebase registration the program runs on: the registration
\* stays refused, no query runs, the cached position changes only by Start and
\* reset, an estimate still counts as a measurement, and Start, Stop and
\* Continue still set the mode.
C18_DegradedMode ==
    [][~timebase_master =>
          /\ ~timebase_master'
          /\ op' # "query"
          /\ <<bar, beat, tick>>' # <<bar, beat, tick>> => op' \in {"Start", "reset"}
          /\ op' = "ClockEstimate" => measurement_count' = measurement_count + 1
          /\ op' \in {"Start", "Continue"} => transport_rolling'
          /\ op' = "Stop" => ~transport_rolling']_vars

\* Without the registration: an estimate that changed the tempo, away from the
\* initial position.
C18_Witness ==
    /\ ~timebase_master /\ op = "ClockEstimate"
    /\ measurement_count > 0 /\ current_bpm # INITIAL_BPM /\ transport_rolling

\* C19: a pulse that closes a window with an elapsed time of 0 or less leaves
\* the tempo, the measurement count and the stability state as they were and
\* requests no reposition; it sets the pulse count to 0 and the window start
\* to its own reading.
C19_NonPositiveWindowDiscarded ==
    [][(op' \in {"ClockEstimate", "ClockDiscard"}
          /\ last_pulse_time' <= last_pulse_time) =>
          /\ UNCHANGED <<current_bpm, measurement_count, stability_counter,
                         last_snapped_bpm>>
          /\ ~jack_reposition'
          /\ pulse_count' = 0
          /\ \E g \in AnomalyGaps : g <= 0 /\ last_pulse_time' = PulseTime(g)]_vars

\* A discard after an estimate, off a clock that was set back.
C19_Witness ==
    /\ op = "ClockDiscard" /\ measurement_count > 0 /\ current_bpm # INITIAL_BPM
    /\ last_pulse_time <= PULSES_PER_QUARTER * 20833

\* C20 as stated: with pulses T microseconds apart from the initial state, the
\* first sample comes within the first 24 pulses and is 60000000 / (23 * T),
\* clamped.
C20_FirstSampleSpans23Gaps ==
    (even_gap > 0 /\ op = "ClockEstimate" /\ measurement_count = 1) =>
        /\ pulses <= 24
        /\ raw_sample = Max(MIN_BPM, Min(MAX_BPM,
                            MulDivRound(MICROS_PER_MINUTE, BpmUnit, 23 * even_gap)))

\* C20 as amended: the first sample comes with the 25th pulse and is
\* 60000000 / (24 * T), clamped: the window spans 24 gaps.
C20_FirstSampleSpans24Gaps ==
    (even_gap > 0 /\ op = "ClockEstimate" /\ measurement_count = 1) =>
        /\ pulses = 25
        /\ raw_sample = Max(MIN_BPM, Min(MAX_BPM,
                            MulDivRound(MICROS_PER_MINUTE, BpmUnit, 24 * even_gap)))

\* The first sample of a source with pulses 20833 microseconds apart.
C20_Witness ==
    even_gap = 20833 /\ op = "ClockEstimate" /\ measurement_count = 1 /\ pulses = 25

\* C21: an audio call that nothing interferes with takes the frame from f to
\* f + n as a 64-bit position: the counter moves, and it does not pass from
\* the upper half of the 32-bit range (held as a negative number) back to the
\* lower half.
C21_FrameNeverWraps ==
    [][(op' = "advance" /\ a_pc = "store" /\ overlap = "none") =>
          /\ current_frame' # current_frame
          /\ ~(current_frame < 0 /\ current_frame' >= 0)]_vars

\* C22: the first-pulse flag is clear at program start and after a Start, a
\* Stop and a reset; a Clock pulse taken with the flag clear makes no estimate:
\* it sets the flag, records its reading as the window start, sets the pulse
\* count to 0, requests no reposition and leaves the tempo, the measurement
\* count and the stability state as they were.
C22_FirstPulseNoEstimate ==
    [][ /\ op \in {"init", "Start", "Stop", "reset"} => ~first_clock_received
        /\ (~first_clock_received /\ op' \in {"ClockAutoStart", "ClockFirst",
                "ClockCount", "ClockEstimate", "ClockDiscard"}) =>
              /\ op' \in {"ClockAutoStart", "ClockFirst"}
              /\ first_clock_received'
              /\ \E g \in AnomalyGaps : last_pulse_time' = PulseTime(g)
              /\ pulse_count' = 0
              /\ ~jack_reposition'
              /\ UNCHANGED <<current_bpm, measurement_count, stability_counter,
                             last_snapped_bpm>>
      ]_vars

\* A first pulse after a reset, or a Start and a Stop, that followed an
\* estimate: the tempo and the stability state are those of the estimate, the
\* measurement count is 0.
C22_Witness ==
    /\ op = "ClockAutoStart" /\ measurement_count = 0
    /\ stability_counter > 0 /\ current_bpm # INITIAL_BPM

\* C23: counting the Clock pulses since the latest Start, Stop or reset, the
\* boundaries are the first pulse and every 24th pulse after it.  A pulse in
\* between adds 1 to the pulse count and changes nothing else of the
\* estimator; a boundary records its reading as the window start, and the
\* sample of an estimate is taken over the time since the previous boundary's
\* reading.
C23_BoundaryEvery24Pulses ==
    [][op' \in {"ClockAutoStart", "ClockFirst", "ClockCount", "ClockEstimate",
                "ClockDiscard"} =>
          /\ (phase' = 0) <=> (op' # "ClockCount")
          /\ (phase' = 0 /\ phase # -1) <=> (op' \in {"ClockEstimate", "ClockDiscard"})
          /\ phase' # 0 =>
                /\ pulse_count' = pulse_count + 1
                /\ pulse_count' = phase'
                /\ ~jack_reposition'
                /\ UNCHANGED <<last_pulse_time, current_bpm, measurement_count,
                               stability_counter, last_snapped_bpm,
                               first_clock_received, transport_rolling>>
          /\ phase' = 0 =>
                /\ pulse_count' = 0
                /\ \E g \in TempoGaps : last_pulse_time' = PulseTime(g)
          /\ op' = "ClockEstimate" =>
                raw_sample' = Max(MIN_BPM, Min(MAX_BPM,
                                  RawQuotient(last_pulse_time' - last_pulse_time)))
      ]_vars

\* The second estimate in a row: a boundary 24 pulses after a boundary that
\* was itself an estimate.
C23_Witness ==
    op = "ClockEstimate" /\ phase = 0 /\ measurement_count = 2 /\ pulse_count = 0

\* C24: the smoothed value of an estimate is w * raw + (1 - w) * current, with
\* w = 0.9 when the measurement count is below 5 or raw and current differ by
\* more than 10 BPM, else w = 0.5 when the count is below 10 or they differ by
\* more than 3 BPM, else w = 0.3; the count and the current tempo are those
\* before the estimate (to the nearest 1/1000 BPM).
C24_SmoothingWeights ==
    [][op' = "ClockEstimate" =>
          LET raw == raw_sample'
              current == current_bpm
              diff == IF raw > current THEN raw - current ELSE current - raw
              w == IF measurement_count < 5 \/ diff > 10000 THEN 9
                   ELSE IF measurement_count < 10 \/ diff > 3000 THEN 5
                   ELSE 3
          IN  smoothed_sample' = (w * raw + (10 - w) * current + 5) \div 10]_vars

\* An estimate at measurement count 10 whose sample, 125, is exactly 3 BPM from
\* the current tempo, 122: the weight is 0.3 and the smoothed value 122.9.
C24_Witness ==
    /\ op = "ClockEstimate" /\ measurement_count = 11
    /\ raw_sample = 125000 /\ smoothed_sample = 122900

\* C25: the stability state after an estimate follows from the smoothed value
\* alone.  With N the integer nearest to it: within 0.15 of N and N the tracked
\* target, the counter goes up by 1; within 0.15 and N another integer, the
\* counter is 1 and the target N; further away, the counter is 0 and the target
\* stays.  The tempo stored is N when the counter is then 3 or more, else the
\* smoothed value.
C25_StabilityBookkeeping ==
    [][op' = "ClockEstimate" =>
          LET smoothed == smoothed_sample'
              N == ((smoothed + 500) \div 1000) * 1000
              near == smoothed - N <= 150 /\ N - smoothed <= 150
          IN  /\ (near /\ N = last_snapped_bpm) =>
                    /\ stability_counter' = stability_counter + 1
                    /\ last_snapped_bpm' = last_snapped_bpm
              /\ (near /\ N # last_snapped_bpm) =>
                    /\ stability_counter' = 1
                    /\ last_snapped_bpm' = N
              /\ ~near =>
                    /\ stability_counter' = 0
                    /\ last_snapped_bpm' = last_snapped_bpm
              /\ current_bpm' = (IF stability_counter' >= 3 THEN N ELSE smoothed)
      ]_vars

\* An estimate that smoothed to within 0.15 of an integer other than the
\* target, after the counter had reached 3: the run starts again at 1.
C25_Witness ==
    /\ op = "ClockEstimate" /\ stability_counter = 1
    /\ last_snapped_bpm = NearestInt(smoothed_sample)
    /\ current_bpm = smoothed_sample /\ current_bpm # last_snapped_bpm
    /\ qual_run = 1

\* C26: an estimate whose smoothed value is 0.15 or more away from its nearest
\* integer, exactly 0.15 included, leaves the stability counter at 0 and stores
\* the smoothed value.
C26_DeviationResetsRun ==
    [][op' = "ClockEstimate" =>
          LET smoothed == smoothed_sample'
              N == ((smoothed + 500) \div 1000) * 1000
          IN  (smoothed - N >= 150 \/ N - smoothed >= 150) =>
                  stability_counter' = 0 /\ current_bpm' = smoothed]_vars

\* C27: an estimate adds exactly 1 to the measurement count, a Start and a
\* reset set it to 0, and every other step (a pulse that makes no estimate, a
\* Stop, a Continue, a toggle, a step of an audio call, a query) leaves it as
\* it is; so it goes down by no step other than a Start or a reset.
C27_MeasurementCount ==
    [][ /\ op' = "ClockEstimate" => measurement_count' = measurement_count + 1
        /\ op' \in {"Start", "reset"} => measurement_count' = 0
        /\ op' \notin {"ClockEstimate", "Start", "reset"} =>
              measurement_count' = measurement_count
        /\ measurement_count' < measurement_count => op' \in {"Start", "reset"}
      ]_vars

\* A window discarded after two estimates, the count still 2.
C27_Witness == op = "ClockDiscard" /\ measurement_count = 2 /\ raw_sample > 0

\* C28: the pulse count is always within 0..23, also when the stores of a
\* reset fall between the accesses of a Clock pulse being processed.
C28_PulseCountInRange == pulse_count \in 0..23

\* A Clock pulse has stored its count after a reset, begun while the pulse was
\* being processed, had stored 0 and cleared the first-pulse flag.
C28_Witness ==
    /\ op = "ClockCount" /\ c_pc = "idle" /\ r_pc = "idle"
    /\ pulse_count > 0 /\ ~first_clock_received

\* C29: a Clock pulse that makes an estimate stores the tempo returned by the
\* snap, then adds 1 to the measurement count, then requests the reposition,
\* once; a pulse that makes no estimate requests none.  The stored tempo is
\* from then on that of the latest estimate, and a query computes the position
\* it reports from the stored tempo.
C29_PublishThenRequest ==
    [][ /\ op' = "clock_bpm" =>
              /\ c_trace' = <<"bpm">>
              /\ current_bpm' \in {smoothed_sample', NearestInt(smoothed_sample')}
        /\ op' = "clock_inc" =>
              /\ c_trace = <<"bpm">>
              /\ measurement_count' = measurement_count + 1
        /\ jack_reposition' <=> op' = "clock_reposition"
        /\ op' = "clock_reposition" =>
              /\ c_trace = <<"bpm", "count">>
              /\ UNCHANGED <<current_bpm, measurement_count>>
        /\ (c_pc # "idle" /\ c_pc' = "idle") =>
              /\ c_trace' \in {<<>>, <<"bpm", "count", "reposition">>}
              /\ c_trace' = <<>> <=> op' # "ClockEstimate"
        /\ raw_sample' > 0 =>
              current_bpm' \in {smoothed_sample', NearestInt(smoothed_sample')}
        /\ op' = "query" =>
              <<bar', beat', tick'>> =
                  LET pos == Position(current_frame', current_bpm, sample_rate)
                  IN  <<pos.bar, pos.beat, pos.tick>>
      ]_vars

\* A query that ran between the reposition request of an estimate and the
\* return of the handler, half a second into the transport.
C29_Witness ==
    /\ op = "query" /\ c_pc = "close" /\ c_trace = <<"bpm", "count", "reposition">>
    /\ current_bpm # INITIAL_BPM /\ current_frame = 24000 /\ measurement_count = 1

\* C30: after a Stop or a reset the transport is Stopped and stays so under every
\* operation but Start, Continue, the play/pause toggle and a Clock pulse; the
\* first Clock pulse that follows sets it rolling again and leaves the frame
\* counter where it is: at the frame of the Stop, at 0 after a reset.
C30_ClockRestartsAfterStop ==
    [][ /\ op' \in {"Stop", "reset"} =>
              /\ ~transport_rolling'
              /\ jack_state' = "Stopped"
              /\ ~first_clock_received'
        /\ (~transport_rolling /\ op' \notin {"Start", "Continue", "toggle", "ClockAutoStart"}) =>
              ~transport_rolling'
        /\ (~transport_rolling /\ ~first_clock_received
              /\ op' \in {"ClockAutoStart", "ClockFirst", "ClockCount", "ClockEstimate",
                           "ClockDiscard"}) =>
              /\ op' = "ClockAutoStart"
              /\ transport_rolling'
              /\ jack_state' = "Rolling"
              /\ UNCHANGED current_frame
              /\ stopped_at # -1 => current_frame' = stopped_at
              /\ (op = "reset" /\ a_pc = "idle") => current_frame' = 0 ]_vars

\* A first pulse that resumes the transport at the frame, above 0, it was
\* stopped at, with estimates already made.
C30_Witness ==
    /\ op = "ClockAutoStart"
    /\ transport_rolling /\ jack_state = "Rolling"
    /\ current_frame > 0
    /\ pulse_count = 0 /\ measurement_count > 0

\* C31: what a Clock pulse leaves in pulse_count, current_bpm, measurement_count,
\* the stability counter and the snap target is a function of the estimator's
\* state and of the pulse's timestamp alone, the same whether the transport is
\* Stopped or Rolling; no Clock pulse writes the frame or the cached
\* bar/beat/tick.
C31_EstimationIgnoresMode ==
    [][op' \in {"ClockAutoStart", "ClockFirst", "ClockCount", "ClockEstimate",
                "ClockDiscard"} =>
          /\ UNCHANGED <<current_frame, bar, beat, tick>>
          /\ first_clock_received'
          /\ IF ~first_clock_received
             THEN /\ pulse_count' = 0
                  /\ UNCHANGED <<current_bpm, measurement_count, stability_counter,
                                 last_snapped_bpm>>
             ELSE IF pulse_count + 1 < PULSES_PER_QUARTER
             THEN /\ pulse_count' = pulse_count + 1
                  /\ UNCHANGED <<current_bpm, measurement_count, stability_counter,
                                 last_snapped_bpm, last_pulse_time>>
             ELSE LET elapsed == last_pulse_time' - last_pulse_time
                      smoothed == SmoothedBpm(current_bpm, RawBpm(elapsed),
                                              measurement_count)
                      final == snap_bpm(smoothed, stability_counter, last_snapped_bpm)
                  IN  /\ pulse_count' = 0
                      /\ IF elapsed > 0
                         THEN /\ current_bpm' = final.bpm
                              /\ stability_counter' = final.counter
                              /\ last_snapped_bpm' = final.target
                              /\ measurement_count' = measurement_count + 1
                         ELSE UNCHANGED <<current_bpm, measurement_count,
                                          stability_counter, last_snapped_bpm>>]_vars

\* An estimate made while the transport is Stopped (paused by the toggle with
\* the clock still running): it moves the tempo and counts as a measurement.
C31_Witness ==
    /\ op = "ClockEstimate"
    /\ ~transport_rolling /\ jack_state = "Stopped"
    /\ measurement_count > 0
    /\ current_bpm # INITIAL_BPM

\* C32: Start, Stop, Continue, reset and the play/pause toggle leave current_bpm,
\* the stability counter and the snap target as they are; so the first estimate
\* after a Start or reset (the one that makes measurement_count 1) continues the
\* run built before it: when it smooths to within 0.15 BPM of the tracked
\* integer and the counter stood at 2 or more, the stored tempo is that integer.
C32_InterventionsKeepRun ==
    [][ /\ op' \in {"Start", "Stop", "Continue", "reset", "toggle"} =>
              UNCHANGED <<current_bpm, stability_counter, last_snapped_bpm>>
        /\ (op' = "ClockEstimate" /\ measurement_count' = 1) =>
              LET near == NearestInt(smoothed_sample')
              IN  (/\ Abs(smoothed_sample' - near) <= BPM_SNAP_THRESHOLD
                   /\ near = last_snapped_bpm
                   /\ stability_counter >= BPM_STABILITY_COUNT - 1) =>
                      /\ current_bpm' = near
                      /\ stability_counter' = stability_counter + 1 ]_vars

\* The first estimate after a Start or reset returns the snapped integer: the
\* counter reaches 3 with one measurement since.
C32_Witness ==
    /\ op = "ClockEstimate"
    /\ measurement_count = 1
    /\ stability_counter = BPM_STABILITY_COUNT
    /\ current_bpm = last_snapped_bpm
    /\ smoothed_sample # current_bpm

\* C33: a query handed new_pos clear stores the host's frame in the frame
\* counter, whatever the mode, and computes its position from that frame; the
\* bar/beat/tick a query leaves is the position of the frame it used at the one
\* tempo it read when it began, whatever tempo has been stored since.
C33_QueryTakesHostFrame ==
    [][ /\ (op' = "query_frame" /\ ~q_np) =>
              /\ current_frame' = q_frame
              /\ q_frame' = q_frame
        /\ op' = "query_load" => q_bpm' = current_bpm
        /\ op' = "query_store" =>
              /\ <<bar', beat', tick'>> =
                    LET pos == Position(q_frame, q_bpm, sample_rate)
                    IN  <<pos.bar, pos.beat, pos.tick>>
              /\ UNCHANGED <<q_bpm, q_frame, current_frame>>
        /\ q_pc # "idle" => UNCHANGED q_bpm ]_vars

\* A query without new_pos, finished while Stopped, that stored the host's frame
\* 96000 and left the position of that frame at the tempo it had read, after
\* the Clock handler had stored another tempo.
C33_Witness ==
    /\ op = "query_store"
    /\ ~q_np /\ q_frame = 96000 /\ current_frame = 96000
    /\ ~transport_rolling
    /\ q_bpm = INITIAL_BPM /\ current_bpm = 102 * BpmUnit
    /\ bar = 2 /\ beat = 1 /\ tick = 0

\* C34: with the tempo and the sample rate unchanged, the position is monotone
\* in the frame: a query that follows a query and uses a frame at least as
\* large leaves a (bar, beat, tick) that is not lexicographically smaller.
C34_PositionMonotone ==
    [][(op = "query" /\ op' = "query" /\ current_frame <= current_frame'
          /\ UNCHANGED <<current_bpm, sample_rate>>) =>
          \/ bar' > bar
          \/ bar' = bar /\ beat' > beat
          \/ bar' = bar /\ beat' = beat /\ tick' >= tick]_vars

\* A query that followed a query for a smaller frame and landed in an earlier
\* beat of a later bar: frame 190365 at 44100 Hz and 119.5 BPM is 3:1:1146
\* (the frames below it give 1:1 to 1:3 and 2:1:644).
C34_Witness ==
    /\ op = "query" /\ query_rose
    /\ current_frame = 190365 /\ sample_rate = 44100 /\ current_bpm = 119500
    /\ bar = 3 /\ beat = 1 /\ tick = 1146

============================================================================
